---- MODULE Spec2Model ----
(***************************************************************************)
(* Job orchestration of the AI Refinement Dashboard backend: the training  *)
(* executors (training_executor.py, rag_training_executor.py), the         *)
(* persistence layer (database.py) and the API handlers that start, stop,  *)
(* query and sweep training jobs (api_server.py).                          *)
(*                                                                         *)
(* Progress values are percentages (0.95 is 95).  Timestamps are minutes   *)
(* of the clock; a column that is NULL holds the empty sequence, a column  *)
(* that is set holds a one-element sequence.  Texts built by string        *)
(* concatenation are sequences of their fragments.                         *)
(***************************************************************************)
EXTENDS Bags, FiniteSets, Integers, Sequences, TLC

VARIABLES
    db,            \* training_jobs table: job id -> row, NoJob when no row
    running_jobs,  \* api_server.training_executor.running_jobs (a dict)
    runners,       \* bag of live _execute_training threads
    evaluations,   \* evaluations table, in insertion order
    now,           \* wall clock, in minutes
    nstarts,       \* number of start_training calls made so far
    ret,           \* what the last start_training / stop_training / delete call returned
    world,         \* the directories, collections and backend models that exist
    arg,           \* the argument of the function call under study
    res            \* what that call returned

vars == <<db, running_jobs, runners, evaluations, now, nstarts, ret, world, arg, res>>

(***************************************************************************)
(* Bounds of the model.                                                    *)
(***************************************************************************)
MaxStarts == 2
MaxMinutes == 31
TickMinutes == 31
ScriptPosts == 1

(***************************************************************************)
(* Program constants.                                                      *)
(***************************************************************************)
LoRATimeoutMinutes == 30
OtherTimeoutMinutes == 10
StuckProgress == 50

\* the ids the API is called with: the job submitted, and an id without a row
SubmittedIds == {1}
JobIdRange == {1, 2}

\* what create_training_job was given: training type and selected datasets
JobProfiles ==
    { [training_type |-> "lora", selectedDatasets |-> <<2, 1>>],
      [training_type |-> "lora", selectedDatasets |-> <<>>],
      [training_type |-> "rag",  selectedDatasets |-> <<2, 1>>],
      [training_type |-> "rag",  selectedDatasets |-> <<>>],
      [training_type |-> "full", selectedDatasets |-> <<>>] }

NoJob == [status |-> "ABSENT"]

\* str.lower() on the training types the model draws from
Lower(s) == CASE s = "LoRA" -> "lora"
              [] s = "RAG" -> "rag"
              [] OTHER -> s

(***************************************************************************)
(* database.py                                                             *)
(***************************************************************************)
\* the row create_training_job inserts
NewJobRow(p) ==
    [ training_type     |-> p.training_type,
      selectedDatasets  |-> p.selectedDatasets,
      model_name        |-> <<"model", "1.0">>,
      status            |-> "PENDING",
      progress          |-> 0,
      started_at        |-> <<>>,
      completed_at      |-> <<>>,
      error_message     |-> <<>>,
      actual_model_name |-> <<>> ]

\* an UPDATE without its WHERE id = ? clause: every row takes the values
UpdatedEveryRow(d, j, updates) ==
    [i \in DOMAIN d |->
        IF d[i] = NoJob THEN d[i]
        ELSE [k \in DOMAIN d[i] |-> IF k \in DOMAIN updates THEN updates[k] ELSE d[i][k]]]

\* UPDATE training_jobs SET <updates> WHERE id = j: no row, no change
UpdatedRows(d, j, updates) ==
    IF d[j] = NoJob THEN d
    ELSE [d EXCEPT ![j] = [k \in DOMAIN d[j] |->
                              IF k \in DOMAIN updates THEN updates[k] ELSE d[j][k]]]

\* a fallback that keeps the version of the target name
VersionedName(model_name) == model_name

\* the fallback name: the version of model_name replaced by latest
FallbackName(model_name) == <<model_name[1], "latest">>

\* a hook that does not look for a dataset before it inserts the row
EvaluationWithoutDataset(d, evs, j, probe) ==
    IF d[j] = NoJob THEN evs
    ELSE Append(evs, [ job        |-> j,
                       model_name |-> d[j].model_name,
                       dataset_id |-> 0,
                       origin     |-> "automatic",
                       status     |-> "RUNNING" ])

\* _create_automatic_evaluation: the rows of evaluations after it ran for job j
\* on table d.  probe holds what the environment answers: whether `ollama list`
\* shows the name, and how far add_evaluation / start_evaluation get.
AutomaticEvaluation(d, evs, j, probe) ==
    IF d[j] = NoJob THEN evs
    ELSE LET job == d[j]
             first == IF job.actual_model_name # <<>>
                         THEN job.actual_model_name
                         ELSE FallbackName(job.model_name)
             name == IF probe.ollama = "unlisted"
                        THEN FallbackName(job.model_name)
                        ELSE first
         IN  IF job.model_name = <<>> THEN evs
             ELSE IF job.selectedDatasets = <<>> THEN evs
             ELSE IF probe.eval = "add_fails" THEN evs
             ELSE Append(evs, [ job        |-> j,
                                model_name |-> name,
                                dataset_id |-> job.selectedDatasets[1],
                                origin     |-> "automatic",
                                status     |-> IF probe.eval = "ok"
                                                  THEN "RUNNING" ELSE "FAILED" ])

Probes == [ollama : {"listed", "unlisted", "error"}, eval : {"ok", "add_fails", "start_fails"}]
NoProbe == [ollama |-> "listed", eval |-> "ok"]

\* update_training_job: the UPDATE, then the evaluation hook on COMPLETED
update_training_job(j, updates, probe) ==
    /\ db' = UpdatedRows(db, j, updates)
    /\ evaluations' =
          IF "status" \in DOMAIN updates /\ updates.status = "COMPLETED"
             THEN AutomaticEvaluation(UpdatedRows(db, j, updates), evaluations, j, probe)
             ELSE evaluations

(***************************************************************************)
(* training_executor.py and rag_training_executor.py: the job runner       *)
(***************************************************************************)
MainModule == "training_executor"
RagModule == "rag_training_executor"

\* the thread start_training spawns: _execute_training(job_id, job_data)
NewRunner(j, module, job) ==
    [ job      |-> j,
      module   |-> module,
      kind     |-> Lower(job.training_type),
      datasets |-> job.selectedDatasets,
      pc       |-> "start",
      step     |-> 0 ]

Replaced(r, r2) == (runners (-) SetToBag({r})) (+) SetToBag({r2})
Ended(r) == runners (-) SetToBag({r})

FirstStage(kind) == IF kind = "rag" THEN "modelfile" ELSE "prepare"

\* a pipeline that goes from ingestion straight to its final step
SkipsPackaging(pc) == CASE pc = "prepare" -> "train"
                        [] pc = "train" -> "package"
                        [] pc = "modelfile" -> "ingest"
                        [] pc = "ingest" -> "finalize"
                        [] pc = "package" -> "finalize"

NextStage(pc) == CASE pc = "prepare" -> "train"
                   [] pc = "train" -> "package"
                   [] pc = "modelfile" -> "ingest"
                   [] pc = "ingest" -> "package"
                   [] pc = "package" -> "finalize"

\* the progress written after a stage returned
StageProgress(kind, pc) == CASE pc = "prepare" -> 20
                             [] pc = "train" -> 80
                             [] pc = "modelfile" -> 30
                             [] pc = "ingest" -> 60
                             [] pc = "package" -> IF kind = "rag" THEN 90 ELSE 95

Stages == {"prepare", "train", "modelfile", "ingest", "package"}

\* what a stage can raise
StageCauses(r) ==
    CASE r.pc = "prepare" ->
            IF r.datasets = <<>>
               THEN {"No datasets selected for LoRA training"}
               ELSE {"No training samples found. Valid datasets: []"}
      [] r.pc = "train" ->
            IF r.module = RagModule
               THEN {"'TrainingExecutor' object has no attribute '_run_lora_training'"}
               ELSE {"LoRA training failed: stderr"}
      [] r.pc = "modelfile" -> {"[Errno 28] No space left on device"}
      [] r.pc = "ingest" ->
            IF r.datasets = <<>> THEN {} ELSE {"Failed to create ChromaDB knowledge base"}
      [] r.pc = "package" ->
            IF r.kind = "rag"
               THEN {"Failed to create Ollama model: stderr"}
               ELSE {"Failed to create Ollama model from LoRA: stderr"}
      [] OTHER -> {}

\* the except clause a stage's own function wraps its error in
StageWrapper(r) ==
    CASE r.pc = "prepare" -> <<"Error preparing LoRA data: ">>
      [] r.pc = "train" /\ r.module = MainModule -> <<"Error running LoRA training: ">>
      [] r.pc = "package" /\ r.kind = "rag" -> <<"Error creating Ollama model: ">>
      [] r.pc = "package" -> <<"Error creating Ollama model from LoRA: ">>
      [] OTHER -> <<>>

PipelinePrefix(r) == IF r.kind = "rag" THEN <<"RAG training failed: ">>
                                       ELSE <<"LoRA training failed: ">>

\* str(e) as _execute_training receives it
FailureText(r, cause) == PipelinePrefix(r) \o StageWrapper(r) \o <<cause>>

\* a stage that can return: data preparation raises without datasets, and
\* rag_training_executor.py defines no _run_lora_training
CanSucceed(r) ==
    /\ ~(r.pc = "prepare" /\ r.datasets = <<>>)
    /\ ~(r.pc = "train" /\ r.module = RagModule)

\* the name _create_ollama_model returns for the job's name
PackagedName == <<"model", "latest">>

\* _execute_training entered: dispatch on the training type
FailedUpdate(text) ==
    [status |-> "FAILED", error_message |-> text, completed_at |-> <<now>>]

RunnerDispatch(r) ==
    /\ r.pc = "start"
    /\ IF r.kind \in {"rag", "lora"}
          THEN /\ update_training_job(r.job, [progress |-> 10], NoProbe)
               /\ runners' = Replaced(r, [r EXCEPT !.pc = FirstStage(r.kind)])
          ELSE /\ update_training_job(r.job,
                     FailedUpdate(<<"Unsupported training type: ", r.kind>>), NoProbe)
               /\ runners' = Ended(r)
    /\ UNCHANGED <<running_jobs, now, nstarts, ret, world, arg, res>>

\* the jobName the job was submitted with; model_name is derived from it
HumanName == <<"Model">>

\* what exists outside the database: a kind and a name
Dir(name) == [kind |-> "dir", name |-> name]
Collection(name) == [kind |-> "collection", name |-> name]
BackendModel(name) == [kind |-> "ollama", name |-> name]

\* f"knowledge_base_job_{job_id}"
CollectionName(j) == <<"knowledge_base_job_", ToString(j)>>
\* f"training_data/job_{job_id}"
TrainDataDir(j) == <<"training_data/job_", ToString(j)>>
\* f"models/{name}"
ModelDir(name) == <<"models/">> \o name

\* what a stage that returned has created
Materialized(r) ==
    CASE r.pc = "modelfile" -> {Dir(ModelDir(HumanName))}
      [] r.pc = "ingest" ->
            IF r.datasets = <<>> THEN {} ELSE {Collection(CollectionName(r.job))}
      [] r.pc = "prepare" -> {Dir(TrainDataDir(r.job))}
      [] r.pc = "train" -> {Dir(ModelDir(HumanName \o <<"_lora">>))}
      [] r.pc = "package" ->
            IF r.kind = "rag"
               THEN {BackendModel(PackagedName)}
               ELSE {Dir(ModelDir(HumanName)), BackendModel(PackagedName)}
      [] OTHER -> {}

\* what a stage that raised has created before it raised
LeftBehind(r) ==
    CASE r.pc = "prepare" /\ r.datasets # <<>> -> {Dir(TrainDataDir(r.job))}
      [] r.pc = "package" /\ r.kind # "rag" -> {Dir(ModelDir(HumanName))}
      [] OTHER -> {}

\* a stage returns and its progress is written
StageDone(r) ==
    /\ r.pc \in Stages
    /\ CanSucceed(r)
    /\ update_training_job(r.job, [progress |-> StageProgress(r.kind, r.pc)], NoProbe)
    /\ runners' = Replaced(r, [r EXCEPT !.pc = NextStage(r.pc), !.step = 0])
    /\ world' = world \cup Materialized(r)
    /\ UNCHANGED <<running_jobs, now, nstarts, ret, arg, res>>

\* a stage raises: the pipeline re-raises and _execute_training writes FAILED
StageFailed(r) ==
    /\ r.pc \in Stages
    /\ \E cause \in StageCauses(r) :
          update_training_job(r.job, FailedUpdate(FailureText(r, cause)), NoProbe)
    /\ runners' = Ended(r)
    /\ world' = world \cup LeftBehind(r)
    /\ UNCHANGED <<running_jobs, now, nstarts, ret, arg, res>>

\* the progress the generated script posts after 5*k of 5*ScriptPosts steps
ScriptProgress(k) == 20 + (k * 60) \div ScriptPosts

\* the training script posts progress; update_training_progress writes it
\* unless the UPDATE naming the step columns is rejected (then it answers 500)
ScriptPost(r, accepted) ==
    /\ r.pc = "train"
    /\ r.module = MainModule
    /\ r.step < ScriptPosts
    /\ IF accepted
          THEN update_training_job(r.job, [progress |-> ScriptProgress(r.step + 1)], NoProbe)
          ELSE UNCHANGED <<db, evaluations>>
    /\ runners' = Replaced(r, [r EXCEPT !.step = r.step + 1])
    /\ UNCHANGED <<running_jobs, now, nstarts, ret, world, arg, res>>

\* _store_training_evaluation of rag_training_executor.py
StoredEvaluation(evs, r, stored) ==
    IF r.datasets = <<>> \/ ~stored THEN evs
    ELSE Append(evs, [ job        |-> r.job,
                       model_name |-> PackagedName,
                       dataset_id |-> r.datasets[1],
                       origin     |-> "stored",
                       status     |-> "COMPLETED" ])

\* the updates of the final step
CompletedUpdate(r) ==
    IF r.module = RagModule /\ r.kind = "rag"
       THEN [status |-> "COMPLETED", progress |-> 100, completed_at |-> <<now>>,
             actual_model_name |-> PackagedName]
       ELSE [status |-> "COMPLETED", progress |-> 100, completed_at |-> <<now>>]

\* an evaluation failure that reaches the runner, whose except clause then
\* writes FAILED
TriggerRaised(d, j, probe) ==
    IF probe.eval # "ok"
       THEN UpdatedRows(d, j, FailedUpdate(<<"evaluation failed">>))
       ELSE d

\* the table after the evaluation hook ran on it: _create_automatic_evaluation
\* and _store_training_evaluation catch every exception and only print it
AfterTrigger(d, j, probe) == d

\* Step 4 of a pipeline: the job is written COMPLETED and the thread ends
RunnerComplete(r, probe, stored) ==
    /\ r.pc = "finalize"
    /\ db' = AfterTrigger(UpdatedRows(db, r.job, CompletedUpdate(r)), r.job, probe)
    /\ LET evs == AutomaticEvaluation(UpdatedRows(db, r.job, CompletedUpdate(r)),
                                      evaluations, r.job, probe)
       IN  evaluations' = IF r.module = RagModule /\ r.kind = "rag"
                             THEN StoredEvaluation(evs, r, stored)
                             ELSE evs
    /\ runners' = Ended(r)
    /\ UNCHANGED <<running_jobs, now, nstarts, ret, world, arg, res>>

(***************************************************************************)
(* TrainingExecutor: start, stop, status                                   *)
(***************************************************************************)
\* what an executor call answered: the operation, its job id and its result
Returned(op, j, ok) == [op |-> op, job |-> j, ok |-> ok]

\* a start_training that registers no handle
RegisteredNowhere(reg, j) == reg

\* running_jobs[j] = {...}
Registered(reg, j) ==
    [k \in DOMAIN reg \cup {j} |->
        IF k = j THEN [status |-> "RUNNING", started_at |-> now] ELSE reg[k]]

\* del running_jobs[j]
Unregistered(reg, j) == [k \in DOMAIN reg \ {j} |-> reg[k]]

RunningUpdate == [status |-> "RUNNING", started_at |-> <<now>>, progress |-> 0]

\* an except clause that persists a fixed text instead of str(e)
SchedulingFailedGeneric(text) == [status |-> "FAILED", error_message |-> <<"Failed to start training">>]

\* the except clause of start_training
SchedulingFailedUpdate(text) == [status |-> "FAILED", error_message |-> text]

\* what Thread.start() raises when no thread can be created
ThreadErrors == {<<"can't start new thread">>}

\* start_training(job_id, job_data) of the executor of `module`; only the
\* executor of api_server.py (MainModule) keeps its registry between calls.
\* spawned is FALSE when Thread.start() raises.
start_training(j, module, spawned) ==
    /\ nstarts < MaxStarts
    /\ nstarts' = nstarts + 1
    /\ IF spawned
          THEN /\ db' = UpdatedRows(db, j, RunningUpdate)
               /\ runners' = runners (+) SetToBag({NewRunner(j, module, db[j])})
               /\ running_jobs' = IF module = MainModule
                                     THEN Registered(running_jobs, j)
                                     ELSE running_jobs
               /\ ret' = Returned("start", j, TRUE)
          ELSE /\ \E text \in ThreadErrors :
                    db' = UpdatedRows(UpdatedRows(db, j, RunningUpdate), j,
                                      SchedulingFailedUpdate(text))
               /\ ret' = Returned("start", j, FALSE)
               /\ UNCHANGED <<runners, running_jobs>>
    /\ UNCHANGED <<evaluations, now, world, arg, res>>

\* stop_training(job_id)
stop_training(j) ==
    /\ IF j \in DOMAIN running_jobs
          THEN /\ db' = UpdatedRows(db, j, [status |-> "STOPPED", completed_at |-> <<now>>])
               /\ running_jobs' = Unregistered(running_jobs, j)
               /\ ret' = Returned("stop", j, TRUE)
          ELSE /\ ret' = Returned("stop", j, FALSE)
               /\ UNCHANGED <<db, running_jobs>>
    /\ UNCHANGED <<runners, evaluations, now, nstarts, world, arg, res>>

\* get_training_status(job_id): the view returned, [status |-> "ABSENT"] for None
StatusView(j) ==
    IF j \in DOMAIN running_jobs
       THEN [ status     |-> running_jobs[j].status,
              started_at |-> <<running_jobs[j].started_at>>,
              running    |-> TRUE ]
       ELSE IF db[j] # NoJob
               THEN [ status       |-> db[j].status,
                      started_at   |-> db[j].started_at,
                      completed_at |-> db[j].completed_at,
                      running      |-> FALSE ]
               ELSE [status |-> "ABSENT"]

\* the call reads and writes nothing: what it answers is StatusView(j)
get_training_status(j) ==
    /\ j \in JobIdRange
    /\ UNCHANGED vars

(***************************************************************************)
(* api_server.py: the handlers                                             *)
(***************************************************************************)
\* 404 "Training job not found": the executor is not called
NotFound(j) ==
    /\ db[j] = NoJob
    /\ UNCHANGED vars

\* POST /api/training-jobs/<id>/start
start_specific_training(j, spawned) ==
    \/ NotFound(j)
    \/ /\ db[j] # NoJob
       /\ start_training(j, MainModule, spawned)

TypeOverrides == {"none", "rag", "lora"}

\* POST /api/start-training, whose body may name a training_type
start_training_route(j, override, spawned) ==
    \/ NotFound(j)
    \/ /\ db[j] # NoJob
       /\ LET training_type == IF override = "none" THEN db[j].training_type ELSE override
          IN  IF Lower(training_type) = "rag"
                 THEN start_training(j, RagModule, spawned)
                 ELSE start_training(j, MainModule, spawned)

\* elapsed minutes since started_at
Elapsed(job) == now - job.started_at[1]

TimeoutMinutes(job) ==
    IF job.training_type = "LoRA" THEN LoRATimeoutMinutes ELSE OtherTimeoutMinutes

\* the test detect_stuck_training applies to a row
IsStuck(job) ==
    /\ job.status = "RUNNING"
    /\ job.started_at # <<>>
    /\ Elapsed(job) > TimeoutMinutes(job)
    /\ job.progress < StuckProgress

StuckJobs == {j \in JobIdRange : db[j] # NoJob /\ IsStuck(db[j])}

StuckText(job) ==
    <<"Training stuck for ", ToString(Elapsed(job)), " minutes with ",
      ToString(job.progress), ".0% progress">>

\* a sweep that marks the job without saying why
StuckUpdateNoText(job) == [status |-> "FAILED"]

StuckUpdate(job) == [status |-> "FAILED", error_message |-> StuckText(job)]

\* POST /api/detect-stuck-training
detect_stuck_training ==
    /\ db' = [j \in JobIdRange |->
                 IF j \in StuckJobs
                    THEN UpdatedRows(db, j, StuckUpdate(db[j]))[j]
                    ELSE db[j]]
    /\ UNCHANGED <<running_jobs, runners, evaluations, now, nstarts, ret, world, arg, res>>

\* time passes
Tick ==
    /\ now + TickMinutes <= MaxMinutes
    /\ now' = now + TickMinutes
    /\ UNCHANGED <<db, running_jobs, runners, evaluations, nstarts, ret, world, arg, res>>

(***************************************************************************)
(* The system                                                              *)
(***************************************************************************)
Init ==
    /\ \E p \in JobProfiles :
          db = [j \in JobIdRange |-> IF j \in SubmittedIds THEN NewJobRow(p) ELSE NoJob]
    /\ running_jobs = <<>>
    /\ runners = EmptyBag
    /\ evaluations = <<>>
    /\ now = 0
    /\ nstarts = 0
    /\ ret = Returned("none", 0, FALSE)
    /\ world = {}
    /\ arg = <<>>
    /\ res = <<>>

StartSpecific == \E j \in JobIdRange, spawned \in BOOLEAN : start_specific_training(j, spawned)
StartRoute == \E j \in JobIdRange, o \in TypeOverrides, spawned \in BOOLEAN :
                  start_training_route(j, o, spawned)
Stop == \E j \in JobIdRange : stop_training(j)
Status == \E j \in JobIdRange : get_training_status(j)
Sweep == detect_stuck_training
Dispatch == \E r \in BagToSet(runners) : RunnerDispatch(r)
StageOk == \E r \in BagToSet(runners) : StageDone(r)
StageFail == \E r \in BagToSet(runners) : StageFailed(r)
Post == \E r \in BagToSet(runners), accepted \in BOOLEAN : ScriptPost(r, accepted)
Complete == \E r \in BagToSet(runners), probe \in Probes, stored \in BOOLEAN :
                RunnerComplete(r, probe, stored)

Next ==
    \/ StartSpecific
    \/ StartRoute
    \/ Stop
    \/ Status
    \/ Sweep
    \/ Dispatch
    \/ StageOk
    \/ StageFail
    \/ Post
    \/ Complete
    \/ Tick

Spec == Init /\ [][Next]_vars

(***************************************************************************)
(* Properties                                                              *)
(***************************************************************************)
Terminal == {"COMPLETED", "FAILED", "STOPPED"}

\* the live executions of job j
RunnersOf(j) == {r \in BagToSet(runners) : r.job = j}

\* a text that is not the empty string
NonEmptyText(t) == \E i \in DOMAIN t : t[i] # ""

\* C1: once the persisted status of a job is COMPLETED, FAILED or STOPPED,
\* no step changes it again.
C1_TerminalStatusIsFinal ==
    [][\A j \in JobIdRange :
          db[j].status \in Terminal => db'[j].status = db[j].status]_vars

\* C2: after Stop has persisted STOPPED for a job, no step of the job's
\* still-running execution changes the job's row.
C2_NoRunnerWriteAfterStop ==
    [][\A j \in JobIdRange :
          (/\ db[j].status = "STOPPED"
           /\ nstarts' = nstarts
           /\ runners' # runners) => db'[j] = db[j]]_vars

\* C3: from one persisted state to the next, the progress of a job that is
\* RUNNING before and after the step does not decrease.
C3_ProgressNonDecreasing ==
    [][\A j \in JobIdRange :
          (db[j].status = "RUNNING" /\ db'[j].status = "RUNNING")
             => db'[j].progress >= db[j].progress]_vars

\* C4: a job persisted as COMPLETED has a resolved artifact name.
C4_CompletedHasArtifactName ==
    \A j \in JobIdRange :
        db[j].status = "COMPLETED" => db[j].actual_model_name # <<>>

\* C5: a job persisted as FAILED has a non-empty error message.
C5_FailedHasErrorMessage ==
    \A j \in JobIdRange :
        db[j].status = "FAILED" => NonEmptyText(db[j].error_message)

\* C5 witness: a job the sweep marked FAILED, carrying the sweep's text.
C5_Witness ==
    /\ db[1].status = "FAILED"
    /\ db[1].error_message # <<>>
    /\ db[1].error_message[1] = "Training stuck for "

\* C6: no job whose persisted status is terminal still has a handle in the
\* registry.
C6_NoHandleForTerminalJob ==
    \A j \in JobIdRange :
        db[j].status \in Terminal => j \notin DOMAIN running_jobs

\* C7: a Stop of a job whose execution already ended in COMPLETED or FAILED
\* returns false and leaves the row and the registry unchanged.
C7_StopOfFinishedJobRefused ==
    [][\A j \in JobIdRange :
          (/\ db[j].status \in {"COMPLETED", "FAILED"}
           /\ RunnersOf(j) = {}
           /\ ret' # ret
           /\ ret'.op = "stop"
           /\ ret'.job = j)
             => (ret'.ok = FALSE /\ db' = db /\ running_jobs' = running_jobs)]_vars

\* the execution a step has spawned for job j, not yet past its entry
SpawnedFor(j) ==
    {r \in BagToSet(runners') :
        /\ r.job = j
        /\ r.pc = "start"
        /\ CopiesIn(r, runners') = CopiesIn(r, runners) + 1}

C9_SchedulingFailure ==
    [][\A j \in JobIdRange :
          (nstarts' = nstarts + 1 /\ ret' = Returned("start", j, FALSE))
             => /\ db'[j].status = "FAILED"
                /\ db'[j].error_message \in ThreadErrors
                /\ runners' = runners
                /\ running_jobs' = running_jobs]_vars

\* C9 witness: Start has just returned false for job 1, which never ran.
C9_Witness ==
    /\ ret = Returned("start", 1, FALSE)
    /\ db[1].status = "FAILED"
    /\ db[1].error_message \in ThreadErrors
    /\ 1 \notin DOMAIN running_jobs
    /\ runners = EmptyBag

\* C10: Status reports running = true only for a job whose execution is
\* still live.
C10_RunningOnlyWhenActive ==
    \A j \in JobIdRange :
        (StatusView(j).status # "ABSENT" /\ StatusView(j).running)
           => RunnersOf(j) # {}


\* a step taken by an execution: only those change the bag of runners
\* without a start_training call being made
RunnerStep == runners' # runners /\ nstarts' = nstarts

\* the error message is the one a failed stage leaves
StageFailureText(t) ==
    t # <<>> /\ t[1] \in {"RAG training failed: ", "LoRA training failed: "}

\* C11: once a stage failure has persisted a job as FAILED, no execution
\* of that job runs a later stage: no step of a runner changes the job's
\* status or progress.
C11_NothingAfterStageFailure ==
    [][\A j \in JobIdRange :
          (/\ db[j].status = "FAILED"
           /\ StageFailureText(db[j].error_message)
           /\ RunnerStep)
             => (db'[j].status = "FAILED" /\ db'[j].progress = db[j].progress)]_vars


\* the execution of job j that takes its final step in this step
CompletionOf(j) ==
    /\ nstarts' = nstarts
    /\ \E r \in BagToSet(runners) :
          /\ r.job = j
          /\ r.pc = "finalize"
          /\ CopiesIn(r, runners') = CopiesIn(r, runners) - 1

\* the evaluations a step has inserted
NewEvaluations ==
    {evaluations'[i] : i \in (Len(evaluations) + 1)..Len(evaluations')}

\* C12: the completion of a job that references a dataset creates no more
\* than one Evaluation, and it references the job's first dataset.
C12_AtMostOneEvaluation ==
    [][\A j \in JobIdRange :
          (CompletionOf(j) /\ db[j].selectedDatasets # <<>>)
             => /\ Len(evaluations') <= Len(evaluations) + 1
                /\ \A e \in NewEvaluations :
                      e.dataset_id = db[j].selectedDatasets[1]]_vars

\* the trigger of this step did not get an Evaluation created and started
TriggerFailed(j) ==
    /\ db[j].selectedDatasets # <<>>
    /\ ~\E e \in NewEvaluations : e.origin = "automatic" /\ e.status = "RUNNING"

\* C13: a completion whose Evaluation could not be created or started
\* leaves the job COMPLETED with progress 100 and writes no error message.
C13_TriggerFailureLeavesJobCompleted ==
    [][\A j \in JobIdRange :
          (CompletionOf(j) /\ TriggerFailed(j))
             => /\ db'[j].status = "COMPLETED"
                /\ db'[j].progress = 100
                /\ db'[j].error_message = db[j].error_message]_vars

\* C13 witness: job 1 is COMPLETED without an error message although the
\* Evaluation created for it could not be started.
C13_Witness ==
    /\ db[1].status = "COMPLETED"
    /\ db[1].progress = 100
    /\ db[1].error_message = <<>>
    /\ RunnersOf(1) = {}
    /\ \E i \in DOMAIN evaluations :
          /\ evaluations[i].job = 1
          /\ evaluations[i].origin = "automatic"
          /\ evaluations[i].status = "FAILED"

\* C14: the final step leaves the record the trigger reads COMPLETED with
\* progress 100, completed set and the resolved artifact name set.
C14_TriggerReadsResolvedName ==
    [][\A j \in JobIdRange :
          CompletionOf(j)
             => /\ db'[j].status = "COMPLETED"
                /\ db'[j].progress = 100
                /\ db'[j].completed_at = <<now>>
                /\ db'[j].actual_model_name # <<>>]_vars


(***************************************************************************)
(* The sweep against a clock that advances minute by minute                *)
(***************************************************************************)
SweepMaxMinutes == 32

\* training types as clients submit them: create_training_job stores the
\* text it is given, and the executors lower-case it
SweepProfiles ==
    { [training_type |-> "lora", selectedDatasets |-> <<2, 1>>],
      [training_type |-> "LoRA", selectedDatasets |-> <<2, 1>>],
      [training_type |-> "rag",  selectedDatasets |-> <<2, 1>>] }

SweepInit ==
    /\ \E p \in SweepProfiles :
          db = [j \in JobIdRange |-> IF j \in SubmittedIds THEN NewJobRow(p) ELSE NoJob]
    /\ running_jobs = <<>>
    /\ runners = EmptyBag
    /\ evaluations = <<>>
    /\ now = 0
    /\ nstarts = 0
    /\ ret = Returned("none", 0, FALSE)
    /\ world = {}
    /\ arg = <<>>
    /\ res = <<>>

\* the job is started once, at any minute
StartOnce == \E j \in SubmittedIds : nstarts = 0 /\ start_training(j, MainModule, TRUE)

MinuteTick ==
    /\ now < SweepMaxMinutes
    /\ now' = now + 1
    /\ UNCHANGED <<db, running_jobs, runners, evaluations, nstarts, ret, world, arg, res>>

SweepNext ==
    \/ StartOnce
    \/ MinuteTick
    \/ Sweep
    \/ Dispatch
    \/ StageOk
    \/ StageFail
    \/ Post
    \/ Complete

SweepSpec == SweepInit /\ [][SweepNext]_vars

\* the sweep's predicate as specified: the timeout goes by the job's type,
\* 30 minutes for a job that runs as lora and 10 minutes otherwise
SpecifiedStuck(job) ==
    /\ job.status = "RUNNING"
    /\ job.started_at # <<>>
    /\ Elapsed(job) > (IF Lower(job.training_type) = "lora"
                          THEN LoRATimeoutMinutes ELSE OtherTimeoutMinutes)
    /\ job.progress < StuckProgress

\* a step in which the sweep, and no execution, marks job j FAILED
SweepMarks(j) ==
    /\ db[j].status = "RUNNING"
    /\ db'[j].status = "FAILED"
    /\ runners' = runners
    /\ nstarts' = nstarts

\* C15: the sweep marks a job FAILED only if the job is RUNNING, has its
\* start time set, has run for more than 30 minutes (lora) or 10 minutes
\* (rag), and has progress below 50.
C15_SweepMarksOnlyStuckJobs ==
    [][\A j \in JobIdRange : SweepMarks(j) => SpecifiedStuck(db[j])]_vars

\* C16: once the sweep has persisted a job as FAILED, no step of the job's
\* execution changes the job's status or progress.
C16_SweptJobStaysFailed ==
    [][\A j \in JobIdRange :
          (/\ db[j].status = "FAILED"
           /\ db[j].error_message # <<>>
           /\ db[j].error_message[1] = "Training stuck for "
           /\ RunnerStep)
             => (db'[j].status = "FAILED" /\ db'[j].progress = db[j].progress)]_vars


(***************************************************************************)
(* api_server.py: DELETE /api/training-jobs/<id>                           *)
(***************************************************************************)
\* the operations of the handler that can raise
DeleteOps == {"collection", "model_dir", "ollama", "train_dir", "db"}

\* model_name.replace(':', '_')
RemovedDirName(model_name) == <<model_name[1], "_", model_name[2]>>

\* what the handler looks for
DeletedCollection(j) == Collection(CollectionName(j))
DeletedModelDir(job) == Dir(ModelDir(RemovedDirName(job.model_name)))
DeletedModel(job) == BackendModel(job.model_name)
DeletedTrainDir(j) == Dir(TrainDataDir(j))

\* one operation the handler attempted, and how it went
Attempt(op, result) == [op |-> op, result |-> result]

\* a cleanup step: what it attempted, in order, and what it removed
Cleaned(attempts, removed) == [attempts |-> attempts, removed |-> removed]
Joined(a, b) == Cleaned(a.attempts \o b.attempts, a.removed \cup b.removed)

\* 1. the ChromaDB collection, for a job whose type is 'rag'
CollectionCleanup(j, job, w, raises) ==
    IF job.training_type # "rag" THEN Cleaned(<<>>, {})
    ELSE IF "collection" \in raises
            THEN Cleaned(<<Attempt("collection", "raised")>>, {})
    ELSE IF DeletedCollection(j) \in w
            THEN Cleaned(<<Attempt("collection", "deleted")>>, {DeletedCollection(j)})
            ELSE Cleaned(<<Attempt("collection", "not found")>>, {})

\* `ollama rm`, in its own try inside step 2
OllamaCleanup(job, w, raises) ==
    IF "ollama" \in raises
       THEN Cleaned(<<Attempt("ollama", "raised")>>, {})
    ELSE IF DeletedModel(job) \in w
            THEN Cleaned(<<Attempt("ollama", "removed")>>, {DeletedModel(job)})
            ELSE Cleaned(<<Attempt("ollama", "not found or error")>>, {})

\* 2. the model files of a COMPLETED job: the directory, then the backend
\* model; an error of shutil.rmtree leaves the step
ModelCleanup(job, w, raises) ==
    IF ~(job.status = "COMPLETED" /\ job.model_name # <<>>) THEN Cleaned(<<>>, {})
    ELSE IF DeletedModelDir(job) \in w
            THEN IF "model_dir" \in raises
                    THEN Cleaned(<<Attempt("model_dir", "raised")>>, {})
                    ELSE Joined(Cleaned(<<Attempt("model_dir", "deleted")>>,
                                        {DeletedModelDir(job)}),
                                OllamaCleanup(job, w, raises))
            ELSE Joined(Cleaned(<<Attempt("model_dir", "not found")>>, {}),
                        OllamaCleanup(job, w, raises))

\* 3. the training data directory
TrainDataCleanup(j, w, raises) ==
    IF DeletedTrainDir(j) \in w
       THEN IF "train_dir" \in raises
               THEN Cleaned(<<Attempt("train_dir", "raised")>>, {})
               ELSE Cleaned(<<Attempt("train_dir", "deleted")>>, {DeletedTrainDir(j)})
       ELSE Cleaned(<<Attempt("train_dir", "not found")>>, {})

Cleanup(j, job, w, raises) ==
    Joined(Joined(CollectionCleanup(j, job, w, raises), ModelCleanup(job, w, raises)),
           TrainDataCleanup(j, w, raises))

\* the text that opens the line of cleanup_results an attempt appends
Label(a) ==
    CASE a.op = "collection" ->
            IF a.result = "raised" THEN "ChromaDB cleanup error: "
                                   ELSE "ChromaDB collection "
      [] a.op = "model_dir" ->
            IF a.result = "raised" THEN "Model file cleanup error: "
                                   ELSE "Model directory "
      [] a.op = "ollama" ->
            IF a.result = "raised" THEN "Ollama cleanup error: "
                                   ELSE "Ollama model "
      [] a.op = "train_dir" ->
            IF a.result = "raised" THEN "Training data cleanup error: "
                                   ELSE "Training data directory "

\* cleanup_results
CleanupResults(attempts) ==
    [i \in DOMAIN attempts |-> <<Label(attempts[i]), attempts[i].result>>]

\* a handler that restores what it removed when the record cannot be deleted
RolledBack(w, removed) == w

\* the stores after the cleanup steps, whatever the database then answers
WorldAfterCleanup(w, removed) == w \ removed

\* what the handler answered, and what it attempted in which order
Deleted(j, ok, attempts, report) ==
    [op |-> "delete", job |-> j, ok |-> ok, attempts |-> attempts, report |-> report]

\* the handler; raises is the set of its operations that raise
delete_training_job(j, raises) ==
    \/ NotFound(j)
    \/ /\ db[j] # NoJob
       /\ LET c == Cleanup(j, db[j], world, raises)
          IN  /\ world' = WorldAfterCleanup(world, c.removed)
              /\ IF "db" \in raises
                    THEN /\ db' = db
                         /\ ret' = Deleted(j, FALSE,
                                           c.attempts \o <<Attempt("db", "raised")>>, <<>>)
                    ELSE /\ db' = [db EXCEPT ![j] = NoJob]
                         /\ ret' = Deleted(j, TRUE,
                                           c.attempts \o <<Attempt("db", "deleted")>>,
                                           CleanupResults(c.attempts))
       /\ UNCHANGED <<running_jobs, runners, evaluations, now, nstarts, arg, res>>

\* training types as clients submit them
DeleteProfiles ==
    { [training_type |-> "rag",  selectedDatasets |-> <<2, 1>>],
      [training_type |-> "RAG",  selectedDatasets |-> <<2, 1>>],
      [training_type |-> "lora", selectedDatasets |-> <<2, 1>>] }

\* what other jobs and the operator may have left under the names the
\* handler derives from model_name
Leftovers ==
    { Dir(ModelDir(RemovedDirName(<<"model", "1.0">>))), BackendModel(<<"model", "1.0">>) }

DeleteInit ==
    /\ \E p \in DeleteProfiles :
          db = [j \in JobIdRange |-> IF j \in SubmittedIds THEN NewJobRow(p) ELSE NoJob]
    /\ running_jobs = <<>>
    /\ runners = EmptyBag
    /\ evaluations = <<>>
    /\ now = 0
    /\ nstarts = 0
    /\ ret = Returned("none", 0, FALSE)
    /\ world \in SUBSET Leftovers
    /\ arg = <<>>
    /\ res = <<>>

\* the job is started once, through POST /api/start-training
StartRouteOnce ==
    \E j \in JobIdRange, o \in TypeOverrides :
        nstarts = 0 /\ start_training_route(j, o, TRUE)

Delete == \E j \in JobIdRange, raises \in SUBSET DeleteOps : delete_training_job(j, raises)

DeleteNext ==
    \/ StartRouteOnce
    \/ Dispatch
    \/ StageOk
    \/ StageFail
    \/ Post
    \/ Complete
    \/ Delete

DeleteSpec == DeleteInit /\ [][DeleteNext]_vars


(***************************************************************************)
(* Properties of Delete                                                    *)
(***************************************************************************)
\* a step of the Delete handler on the existing job j
DeleteStep(j) ==
    /\ db[j] # NoJob
    /\ runners' = runners
    /\ nstarts' = nstarts
    /\ ret'.op = "delete"
    /\ ret'.job = j

\* the operations the handler attempted in the step
Attempted == {ret'.attempts[i].op : i \in DOMAIN ret'.attempts}

\* the cleanup operations that apply to a job: its collection when it is a
\* KnowledgeAugmentation job, its model directory and backend model when
\* it is COMPLETED with a resolved artifact name, its working directory
\* always
ApplicableCleanups(job) ==
    (IF Lower(job.training_type) = "rag" THEN {"collection"} ELSE {})
      \cup (IF job.status = "COMPLETED" /\ job.actual_model_name # <<>>
               THEN {"model_dir", "ollama"} ELSE {})
      \cup {"train_dir"}

\* the cleanup operations the handler goes through when none of them raises
UndisturbedCleanups(j) ==
    LET attempts == Cleanup(j, db[j], world, {}).attempts
    IN  {attempts[i].op : i \in DOMAIN attempts}

\* C17: when a cleanup operation of Delete raises, every cleanup operation
\* the handler would go through had nothing raised is still attempted.
C17_FailedCleanupSkipsNothing ==
    [][\A j \in JobIdRange :
          (/\ DeleteStep(j)
           /\ \E i \in DOMAIN ret'.attempts :
                 ret'.attempts[i].op # "db" /\ ret'.attempts[i].result = "raised")
             => UndisturbedCleanups(j) \subseteq Attempted]_vars

\* the lines of cleanup_results that open with one of the given texts
Lines(report, labels) == {i \in DOMAIN report : report[i][1] \in labels}

\* C18: Delete of a COMPLETED KnowledgeAugmentation job answers with a
\* cleanup report that holds an outcome line for the collection deletion,
\* for the artifact removal and for the working-directory removal, whether
\* or not one of these steps raised.
C18_ReportCoversEveryStep ==
    [][\A j \in JobIdRange :
          (/\ DeleteStep(j)
           /\ db[j].status = "COMPLETED"
           /\ Lower(db[j].training_type) = "rag"
           /\ ret'.ok)
             => /\ Lines(ret'.report, {"ChromaDB collection ",
                                       "ChromaDB cleanup error: "}) # {}
                /\ Lines(ret'.report, {"Model directory ", "Ollama model ",
                                       "Ollama cleanup error: ",
                                       "Model file cleanup error: "}) # {}
                /\ Lines(ret'.report, {"Training data directory ",
                                       "Training data cleanup error: "}) # {}]_vars

\* C19: the record is deleted last, after every cleanup operation that
\* applies to the job has been attempted.
C19_RecordRemovedAfterCleanup ==
    [][\A j \in JobIdRange :
          (DeleteStep(j) /\ "db" \in Attempted)
             => /\ ret'.attempts[Len(ret'.attempts)].op = "db"
                /\ \A i \in 1..(Len(ret'.attempts) - 1) : ret'.attempts[i].op # "db"
                /\ ApplicableCleanups(db[j]) \subseteq Attempted]_vars


\* the resource a cleanup operation of Delete(j) is after
Target(op, j, job) ==
    CASE op = "collection" -> DeletedCollection(j)
      [] op = "model_dir"  -> DeletedModelDir(job)
      [] op = "ollama"     -> DeletedModel(job)
      [] op = "train_dir"  -> DeletedTrainDir(j)

\* the attempts of a Delete that removed something
Removals(attempts) ==
    {i \in DOMAIN attempts : attempts[i].result \in {"deleted", "removed"}
                                /\ attempts[i].op # "db"}

\* the persistence delete of the step failed
PersistenceDeleteFailed == ret'.attempts[Len(ret'.attempts)] = Attempt("db", "raised")

Advances(j, kind, from, to) ==
    \E r \in BagToSet(runners) :
       /\ r.job = j
       /\ r.kind = kind
       /\ r.pc = from
       /\ CopiesIn(r, runners') = CopiesIn(r, runners) - 1
       /\ \E r2 \in BagToSet(runners') :
             /\ r2.job = j
             /\ r2.kind = kind
             /\ r2.pc = to
             /\ CopiesIn(r2, runners') = CopiesIn(r2, runners) + 1

\* progress of job j is written as p in the step
Persists(j, p) ==
    /\ db[j] # NoJob
    /\ db'[j] # NoJob
    /\ db'[j].progress = p
    /\ db[j].progress # p

\* C21: for an AdapterTuning job the progress values 0.2, 0.8 and 0.95 are
\* persisted in that order, each only by the step in which
\* PrepareTrainingData, RunAdapterTraining and PackageArtifact returned and
\* the next stage of the order begins.
C21_AdapterProgressFollowsStages ==
    [][\A j \in JobIdRange :
          (db[j] # NoJob /\ Lower(db[j].training_type) = "lora")
             => /\ Persists(j, 20) => /\ Advances(j, "lora", "prepare", "train")
                                      /\ db[j].progress \notin {80, 95}
                /\ Persists(j, 80) => /\ Advances(j, "lora", "train", "package")
                                      /\ db[j].progress # 95
                /\ Persists(j, 95) => Advances(j, "lora", "package", "finalize")]_vars

\* a runner of the knowledge pipeline of job j, without datasets, leaves
\* its ingest stage in the step
SkippedIngest(j) ==
    \E r \in BagToSet(runners) :
       /\ r.job = j
       /\ r.kind = "rag"
       /\ r.pc = "ingest"
       /\ r.datasets = <<>>
       /\ CopiesIn(r, runners') = CopiesIn(r, runners) - 1

\* C22: for a KnowledgeAugmentation job the progress values 0.3, 0.6 and 0.9
\* are persisted by the step in which WriteBehaviorSpec, IngestKnowledgeBase
\* and PackageArtifact returned and the next stage of the order begins;
\* without datasets the ingest stage creates nothing in the knowledge store
\* and cannot fail, 0.6 is persisted and packaging begins.
C22_KnowledgeStagesInOrder ==
    [][\A j \in JobIdRange :
          /\ Persists(j, 30) => Advances(j, "rag", "modelfile", "ingest")
          /\ Persists(j, 60) => Advances(j, "rag", "ingest", "package")
          /\ Persists(j, 90) => Advances(j, "rag", "package", "finalize")
          /\ SkippedIngest(j) => /\ Advances(j, "rag", "ingest", "package")
                                 /\ db'[j].progress = 60
                                 /\ world' = world]_vars

\* C22: a KnowledgeAugmentation job without datasets completed, and the
\* knowledge store holds no collection
C22_Witness ==
    /\ db[1].status = "COMPLETED"
    /\ Lower(db[1].training_type) = "rag"
    /\ db[1].selectedDatasets = <<>>
    /\ db[1].progress = 100
    /\ ~\E w \in world : w.kind = "collection"


(***************************************************************************)
(* One AdapterTuning job run to its end: no stage raises, nobody stops,    *)
(* sweeps or deletes                                                       *)
(***************************************************************************)
\* a lora job that references the one dataset 2
LiveProfiles == { [training_type |-> "lora", selectedDatasets |-> <<2>>] }

LiveInit ==
    /\ \E p \in LiveProfiles :
          db = [j \in JobIdRange |-> IF j \in SubmittedIds THEN NewJobRow(p) ELSE NoJob]
    /\ running_jobs = <<>>
    /\ runners = EmptyBag
    /\ evaluations = <<>>
    /\ now = 0
    /\ nstarts = 0
    /\ ret = Returned("none", 0, FALSE)
    /\ world = {}
    /\ arg = <<>>
    /\ res = <<>>

LiveNext ==
    \/ StartOnce
    \/ MinuteTick
    \/ Dispatch
    \/ StageOk
    \/ Post
    \/ Complete

\* the runner is a thread: a step it can take is eventually taken
LiveSpec ==
    /\ LiveInit
    /\ [][LiveNext]_vars
    /\ WF_vars(Dispatch)
    /\ WF_vars(StageOk)
    /\ WF_vars(Complete)

\* the evaluations that reference dataset d
EvaluationsOf(d) == {i \in DOMAIN evaluations : evaluations[i].dataset_id = d}

\* C23: a started AdapterTuning job with one dataset, no stage failing and
\* no Stop, sweep or Delete, eventually is COMPLETED with progress 1.0 and
\* a resolved artifact name, with exactly one Evaluation of that dataset.
C23_AdapterJobCompletes ==
    (nstarts = 1) ~> (/\ db[1].status = "COMPLETED"
                      /\ db[1].progress = 100
                      /\ db[1].actual_model_name # <<>>
                      /\ Cardinality(EvaluationsOf(2)) = 1)


(***************************************************************************)
(* Preparation of LoRA training data: datasets table -> samples -> split   *)
(***************************************************************************)
MaxRecords == 6

\* api_server.py stores the first 10 samples as samples_preview
StoredPreview == 10
\* get_all_datasets hands out the first 5 of them
ListedPreview == 5

\* ast.literal_eval of a `content` text: whether it parses, and to what
Parsed(dict) == [ok |-> TRUE, dict |-> dict]
Unparsed == [ok |-> FALSE, dict |-> [text |-> "n/a"]]

\* the records a dataset can hold
Records ==
    { [instruction |-> "q", input |-> "i", output |-> "a"],
      [Instruction |-> "q", Response |-> "a"],
      [content |-> Parsed([Instruction |-> "q", Response |-> "a"])],
      [content |-> Unparsed] }

\* s[:i] and s[i:] of Python, i possibly negative
Norm(i, n) == IF i < 0 THEN (IF n + i < 0 THEN 0 ELSE n + i)
                       ELSE (IF i > n THEN n ELSE i)
UpTo(s, i) == SubSeq(s, 1, Norm(i, Len(s)))
From(s, i) == SubSeq(s, Norm(i, Len(s)) + 1, Len(s))

\* dict.get(key, default)
Get(d, key, default) == IF key \in DOMAIN d THEN d[key] ELSE default

\* the metadata add_dataset stores for a loaded dataset
StoredMetadata(samples) ==
    [samples_preview |-> UpTo(samples, StoredPreview), all_samples |-> samples]

\* the metadata get_all_datasets hands out: all_samples is not among the
\* fields kept
ListedMetadata(metadata) ==
    [samples_preview |-> UpTo(Get(metadata, "samples_preview", <<>>), ListedPreview)]

\* the sample built from one record
LoraSample(sample) ==
    LET plain == [ instruction |-> Get(sample, "instruction", Get(sample, "Instruction", "")),
                   input       |-> Get(sample, "input", Get(sample, "Input", "")),
                   output      |-> Get(sample, "output", Get(sample, "Response", "")),
                   system      |-> Get(sample, "system", "") ]
    IN  IF "content" \in DOMAIN sample /\ plain.instruction = "" /\ sample.content.ok
           THEN LET content_data == sample.content.dict
                IN  [ plain EXCEPT
                        !.instruction = Get(content_data, "Instruction",
                                            Get(content_data, "instruction", "")),
                        !.output = Get(content_data, "Response",
                                       Get(content_data, "output", "")),
                        !.input = Get(content_data, "Input",
                                      Get(content_data, "input", "")) ]
           ELSE plain

\* kept unless it has neither instruction nor output
Kept(sample) == LoraSample(sample).instruction # "" \/ LoraSample(sample).output # ""

RECURSIVE Converted(_)
Converted(records) ==
    IF records = <<>> THEN <<>>
    ELSE IF Kept(Head(records))
            THEN <<LoraSample(Head(records))>> \o Converted(Tail(records))
            ELSE Converted(Tail(records))

\* _convert_dataset_to_lora_format of either module
ConvertDataset(module, metadata) ==
    IF module = RagModule
       THEN Converted(Get(metadata, "all_samples", Get(metadata, "samples_preview", <<>>)))
       ELSE Converted(Get(metadata, "samples_preview", <<>>))

\* a split that cuts at -(len(samples)//5)
SplitTruncating(samples) ==
    [ train |-> UpTo(samples, Len(samples) - Len(samples) \div 5),
      val   |-> From(samples, Len(samples) - Len(samples) \div 5) ]

\* samples[:-len(samples)//5] and samples[-len(samples)//5:]
SplitMain(samples) ==
    [ train |-> UpTo(samples, (0 - Len(samples)) \div 5),
      val   |-> From(samples, (0 - Len(samples)) \div 5) ]

\* split_idx = int(len(samples) * 0.8)
SplitRag(samples) ==
    LET split_idx == (Len(samples) * 8) \div 10
    IN  [ train |-> UpTo(samples, split_idx), val |-> From(samples, split_idx) ]

Split(module, samples) ==
    IF samples = <<>> THEN [train |-> <<>>, val |-> <<>>]
    ELSE IF module = RagModule THEN SplitRag(samples) ELSE SplitMain(samples)

\* what a call on a dataset produced
Produced(op, module, samples, parts, raised) ==
    [ op |-> op, module |-> module, samples |-> samples,
      train |-> parts.train, val |-> parts.val, raised |-> raised ]

\* _prepare_lora_data for a job with this one dataset: it reads the dataset
\* through db.get_all_datasets and raises when no training sample results
prepare_lora_data(module) ==
    /\ LET samples == ConvertDataset(module, ListedMetadata(StoredMetadata(arg)))
           parts == Split(module, samples)
       IN  res' = Produced("prepare", module, samples, parts, parts.train = <<>>)
    /\ UNCHANGED <<db, running_jobs, runners, evaluations, now, nstarts, ret, world, arg>>

\* conversion and split of a dataset as stored
convert_and_split(module) ==
    /\ LET samples == ConvertDataset(module, StoredMetadata(arg))
       IN  res' = Produced("convert", module, samples, Split(module, samples), FALSE)
    /\ UNCHANGED <<db, running_jobs, runners, evaluations, now, nstarts, ret, world, arg>>

RECURSIVE SeqsUpTo(_, _)
SeqsUpTo(S, n) ==
    IF n = 0 THEN {<<>>}
    ELSE LET shorter == SeqsUpTo(S, n - 1)
         IN  shorter \cup {Append(q, x) : q \in shorter, x \in S}

PrepInit ==
    /\ db = <<>>
    /\ running_jobs = <<>>
    /\ runners = EmptyBag
    /\ evaluations = <<>>
    /\ now = 0
    /\ nstarts = 0
    /\ ret = Returned("none", 0, FALSE)
    /\ world = {}
    /\ arg \in SeqsUpTo(Records, MaxRecords)
    /\ res = Produced("none", MainModule, <<>>, [train |-> <<>>, val |-> <<>>], FALSE)

Prepare == \E module \in {MainModule, RagModule} : prepare_lora_data(module)
ConvertAndSplit == \E module \in {MainModule, RagModule} : convert_and_split(module)

PrepNext ==
    \/ Prepare
    \/ ConvertAndSplit

PrepSpec == PrepInit /\ [][PrepNext]_vars

\* the records of a dataset from which an instruction or an output derives
RECURSIVE ValidRecords(_)
ValidRecords(records) ==
    IF records = <<>> THEN 0
    ELSE (IF Kept(Head(records)) THEN 1 ELSE 0) + ValidRecords(Tail(records))

\* C24: data preparation turns a dataset of N valid and M unconvertible
\* records into exactly N training plus validation samples.
C24_EveryValidRecordKept ==
    res.op = "prepare" => Len(res.train) + Len(res.val) = ValidRecords(arg)


\* C25: the split of N >= 1 converted samples is the prefix of the first
\* floor(0.8*N) samples and the suffix of the remaining ones, in order and
\* together exactly the N samples, in both executor modules.
C25_SplitIsPrefixAndSuffix ==
    (res.op \in {"prepare", "convert"} /\ Len(res.samples) >= 1)
       => LET N == Len(res.samples)
          IN  /\ res.train = SubSeq(res.samples, 1, (4 * N) \div 5)
              /\ res.val = SubSeq(res.samples, (4 * N) \div 5 + 1, N)
              /\ res.train \o res.val = res.samples

\* C25: six samples were split by the module that slices from the end
C25_Witness ==
    /\ res.op = "convert"
    /\ res.module = MainModule
    /\ Len(res.samples) = 6
    /\ Len(res.train) = 4
    /\ Len(res.val) = 2


(***************************************************************************)
(* Names: sanitize_model_name and the names the packaging stages build.    *)
(* A text is a sequence of one-character strings.                          *)
(***************************************************************************)
MaxNameLen == 4

UpperCase == {"A", "M", "C", "V"}
LowerCase == {"a", "b", "c", "d", "e", "l", "m", "o", "t", "s", "v", "y"}
Digits == {"0", "1"}
Whitespace == {" ", "\t"}

\* str.lower() on one character
LowerChar(c) == CASE c = "A" -> "a"
                  [] c = "M" -> "m"
                  [] c = "C" -> "c"
                  [] c = "V" -> "v"
                  [] OTHER -> c

Alnum == UpperCase \cup LowerCase \cup Digits

\* re.sub(r'[^<class>]', '', text)
RECURSIVE Removed(_, _)
Removed(text, class) ==
    IF text = <<>> THEN <<>>
    ELSE IF Head(text) \in class THEN <<Head(text)>> \o Removed(Tail(text), class)
                                 ELSE Removed(Tail(text), class)

\* re.sub(r'[^<class>]', '-', text)
Replaced1(text, class) ==
    [i \in DOMAIN text |-> IF text[i] \in class THEN text[i] ELSE "-"]

\* re.sub(r'<class>+', '-', text): every run of the class becomes one hyphen
RECURSIVE RunsToHyphen(_, _)
RunsToHyphen(text, class) ==
    IF text = <<>> THEN <<>>
    ELSE IF Head(text) \in class
            THEN IF Len(text) > 1 /\ text[2] \in class
                    THEN RunsToHyphen(Tail(text), class)
                    ELSE <<"-">> \o RunsToHyphen(Tail(text), class)
            ELSE <<Head(text)>> \o RunsToHyphen(Tail(text), class)

\* text.lower()
Lowered(text) == [i \in DOMAIN text |-> LowerChar(text[i])]

\* text.strip(chars)
RECURSIVE LStripped(_, _)
LStripped(text, chars) ==
    IF text # <<>> /\ Head(text) \in chars THEN LStripped(Tail(text), chars) ELSE text

RECURSIVE RStripped(_, _)
RStripped(text, chars) ==
    IF text # <<>> /\ text[Len(text)] \in chars
       THEN RStripped(SubSeq(text, 1, Len(text) - 1), chars)
       ELSE text

\* a strip that removes nothing
NotStripped(text, chars) == text

Stripped(text, chars) == RStripped(LStripped(text, chars), chars)

Latest == <<"l", "a", "t", "e", "s", "t">>

\* a derivation that trims the hyphens before it turns whitespace into them
StripsBeforeHyphenating(job_name, version) ==
    LET kept == Removed(job_name, Alnum \cup Whitespace \cup {"-"})
        sanitized == Lowered(RunsToHyphen(RunsToHyphen(Stripped(kept, {"-"}), Whitespace),
                                          {"-"}))
    IN  IF version # <<>> /\ Stripped(version, Whitespace) # <<>>
           THEN sanitized \o <<":">>
                   \o Lowered(Replaced1(Stripped(version, Whitespace),
                                        Alnum \cup {"-", "_", "."}))
           ELSE sanitized \o <<":">> \o Latest

\* sanitize_model_name(job_name, version)
sanitize_model_name(job_name, version) ==
    LET kept == Removed(job_name, Alnum \cup Whitespace \cup {"-"})
        hyphenated == RunsToHyphen(kept, Whitespace)
        lowered == Lowered(hyphenated)
        collapsed == RunsToHyphen(lowered, {"-"})
        sanitized == Stripped(collapsed, {"-"})
    IN  IF version # <<>> /\ Stripped(version, Whitespace) # <<>>
           THEN LET version_clean ==
                       Lowered(Replaced1(Stripped(version, Whitespace),
                                         Alnum \cup {"-", "_", "."}))
                IN  sanitized \o <<":">> \o version_clean
           ELSE sanitized \o <<":">> \o Latest

\* text.split(':', 1): the part before the first colon and the part after
\* it; Colon(text) is 0 when the text has no colon
Colon(text) ==
    IF \E i \in DOMAIN text : text[i] = ":"
       THEN CHOOSE i \in DOMAIN text : text[i] = ":" /\ \A k \in 1..(i - 1) : text[k] # ":"
       ELSE 0
BasePart(text) == IF Colon(text) = 0 THEN text ELSE SubSeq(text, 1, Colon(text) - 1)
VersionPart(text) == IF Colon(text) = 0 THEN <<>> ELSE SubSeq(text, Colon(text) + 1, Len(text))

\* text.endswith(':latest')
EndsWithLatest(text) ==
    /\ Len(text) >= 7
    /\ SubSeq(text, Len(text) - 6, Len(text)) = <<":">> \o Latest

\* the name _create_ollama_model of rag_training_executor.py builds
BuiltByRagModule(model_name) ==
    IF Colon(model_name) # 0
       THEN Stripped(Replaced1(Lowered(BasePart(model_name)), Alnum \cup {".", "-"}), {"-"})
               \o <<":">> \o VersionPart(model_name)
       ELSE Stripped(Replaced1(Lowered(model_name), Alnum \cup {".", "-"}), {"-"})
               \o <<":">> \o Latest

\* the name _create_ollama_model and _create_ollama_model_from_lora of
\* training_executor.py build
BuiltByMainModule(model_name) ==
    LET sanitized_name == Stripped(Replaced1(Lowered(model_name), Alnum \cup {".", "-"}), {"-"})
    IN  IF EndsWithLatest(sanitized_name) THEN sanitized_name
        ELSE sanitized_name \o <<":">> \o Latest

BuiltName(module, model_name) ==
    IF module = RagModule THEN BuiltByRagModule(model_name) ELSE BuiltByMainModule(model_name)

\* what a call on names returned: the text it was given and the name it made
Named(op, module, first, name) == [op |-> op, module |-> module, first |-> first, name |-> name]

\* create_training_job derives the target name of the job
derive_name ==
    /\ res' = Named("derive", "api_server", arg.name,
                    sanitize_model_name(arg.name, arg.version))
    /\ UNCHANGED <<db, running_jobs, runners, evaluations, now, nstarts, ret, world, arg>>

\* the derivation applied to the base part of a derived name
derive_again ==
    /\ res.op = "derive"
    /\ res' = Named("again", "api_server", res.name,
                    sanitize_model_name(BasePart(res.name), arg.version))
    /\ UNCHANGED <<db, running_jobs, runners, evaluations, now, nstarts, ret, world, arg>>

\* the packaging stage of a job created with this name and version: it is
\* passed job_data['name'], the name the job was submitted with
package_name(module) ==
    /\ res' = Named("package", module,
                    sanitize_model_name(arg.name, arg.version),
                    BuiltName(module, arg.name))
    /\ UNCHANGED <<db, running_jobs, runners, evaluations, now, nstarts, ret, world, arg>>

NameChars == {"A", "b", " ", "\t", "-", "!"}

MyCoolModel == <<"M", "y", " ", "C", "o", "o", "l", " ", "M", "o", "d", "e", "l", "!", "!">>
Bandilarag == <<"b", "a", "d", ":", "1", ".", "0">>

Versions ==
    { <<>>, <<" ">>, <<"1", ".", "0">>, <<" ", "V", "1", " ">>, <<"1", "!", "_", "0">> }

NameInit ==
    /\ db = <<>>
    /\ running_jobs = <<>>
    /\ runners = EmptyBag
    /\ evaluations = <<>>
    /\ now = 0
    /\ nstarts = 0
    /\ ret = Returned("none", 0, FALSE)
    /\ world = {}
    /\ arg \in [name : SeqsUpTo(NameChars, MaxNameLen) \cup {MyCoolModel, Bandilarag},
                version : Versions]
    /\ res = Named("none", "api_server", <<>>, <<>>)

PackageName == \E module \in {MainModule, RagModule} : package_name(module)

NameNext ==
    \/ derive_name
    \/ derive_again
    \/ PackageName

NameSpec == NameInit /\ [][NameNext]_vars

(***************************************************************************)
(* Properties of the names                                                 *)
(***************************************************************************)
\* the words of a name: its runs of letters and digits, lower-cased, as
\* separated by whitespace and hyphens; any other character is dropped
RECURSIVE Words(_, _, _)
Words(text, current, done) ==
    IF text = <<>>
       THEN IF current = <<>> THEN done ELSE Append(done, current)
    ELSE IF Head(text) \in Alnum
       THEN Words(Tail(text), Append(current, LowerChar(Head(text))), done)
    ELSE IF Head(text) \in Whitespace \cup {"-"}
       THEN Words(Tail(text), <<>>, IF current = <<>> THEN done ELSE Append(done, current))
    ELSE Words(Tail(text), current, done)

\* the words joined by single hyphens
RECURSIVE Hyphenated(_)
Hyphenated(words) ==
    IF words = <<>> THEN <<>>
    ELSE IF Len(words) = 1 THEN words[1]
    ELSE words[1] \o <<"-">> \o Hyphenated(Tail(words))

\* a version that needs no sanitizing
PlainVersion(version) ==
    version # <<>> /\ \A i \in DOMAIN version : version[i] \in LowerCase \cup Digits \cup {"."}

\* a version that is empty or all whitespace
BlankVersion(version) == \A i \in DOMAIN version : version[i] \in Whitespace

MyCoolModelLatest ==
    <<"m", "y", "-", "c", "o", "o", "l", "-", "m", "o", "d", "e", "l">> \o <<":">> \o Latest

MyCoolModel10 ==
    <<"m", "y", "-", "c", "o", "o", "l", "-", "m", "o", "d", "e", "l", ":", "1", ".", "0">>

\* C26: the derived target name is the base, a colon and the version part:
\* the base is the name's words (runs of letters and digits, lower-cased,
\* other characters dropped) joined by single hyphens, so with no hyphen at
\* either end; the version part is `latest` for no or a blank version, the
\* version itself when it is plain, and in any case lower-case text of
\* letters, digits, `.`, `_` and `-`.  "My Cool Model!!" gives
\* my-cool-model:latest, and my-cool-model:1.0 with version "1.0".
C26_TargetNameDerivation ==
    res.op = "derive"
       => /\ BasePart(res.name) = Hyphenated(Words(arg.name, <<>>, <<>>))
          /\ Colon(res.name) # 0
          /\ BlankVersion(arg.version) => VersionPart(res.name) = Latest
          /\ PlainVersion(arg.version) => VersionPart(res.name) = arg.version
          /\ \A i \in DOMAIN VersionPart(res.name) :
                VersionPart(res.name)[i] \in LowerCase \cup Digits \cup {".", "_", "-"}
          /\ (arg.name = MyCoolModel /\ arg.version = <<>>) => res.name = MyCoolModelLatest
          /\ (arg.name = MyCoolModel /\ arg.version = <<"1", ".", "0">>)
                => res.name = MyCoolModel10

\* C26: "My Cool Model!!" with version "1.0" was derived
C26_Witness ==
    /\ res.op = "derive"
    /\ arg.name = MyCoolModel
    /\ arg.version = <<"1", ".", "0">>
    /\ res.name = MyCoolModel10

\* C27: deriving again from the base part of a derived name, with the same
\* version, gives the same name.
C27_DerivationIdempotent ==
    res.op = "again" => res.name = res.first

\* C27: a name that sanitizing changed was derived a second time
C27_Witness ==
    /\ res.op = "again"
    /\ arg.name = <<" ", "A", "!", "b">>
    /\ arg.version = <<" ", "V", "1", " ">>
    /\ res.name = <<"a", "b", ":", "v", "1">>

\* C30: the name the packaging stage builds keeps the version suffix of the
\* job's target name verbatim, after the target's base re-sanitized
\* (characters outside letters, digits, `.` and `-` replaced by `-`,
\* lower-cased) and a colon, in both executor modules.
C30_PackagingKeepsVersion ==
    res.op = "package"
       => /\ VersionPart(res.name) = VersionPart(res.first)
          /\ BasePart(res.name) =
                Lowered(Replaced1(BasePart(res.first), Alnum \cup {".", "-"}))

\* C28: Delete attempts the collection deletion exactly for a job of type
\* KnowledgeAugmentation, whatever the letter case of its stored type, and
\* the removal of the model directory and of the backend model exactly for
\* a job that was COMPLETED with a resolved artifact name.
C28_CleanupStepsApplyExactly ==
    [][\A j \in JobIdRange :
          DeleteStep(j)
             => /\ "collection" \in Attempted <=> Lower(db[j].training_type) = "rag"
                /\ \A op \in {"model_dir", "ollama"} :
                      op \in Attempted
                         <=> (db[j].status = "COMPLETED" /\ db[j].actual_model_name # <<>>)]_vars

\* no operation of the Delete step raised
NothingRaised == \A i \in DOMAIN ret'.attempts : ret'.attempts[i].result # "raised"

\* C29: after a successful Delete of a COMPLETED job, with no backend call
\* failing, the backend model its packaging stage built and the model
\* directory its pipeline wrote no longer exist.
C29_DeleteRemovesBuiltArtifact ==
    [][\A j \in JobIdRange :
          (DeleteStep(j) /\ db[j].status = "COMPLETED" /\ ret'.ok /\ NothingRaised)
             => /\ BackendModel(PackagedName) \notin world'
                /\ Dir(ModelDir(HumanName)) \notin world']_vars

(***************************************************************************)
(* api_server.py: PUT /api/training-jobs/<id>, and the evaluation hook     *)
(***************************************************************************)
MaxEvaluations == 2

\* bodies a client sends: any columns, passed on to db.update_training_job
ClientUpdates ==
    { [status |-> "COMPLETED"],
      [progress |-> 50],
      [actual_model_name |-> <<"my-model", "latest">>],
      [status |-> "COMPLETED", actual_model_name |-> <<"my-model", "latest">>] }

\* what the route answered, and what the environment answered the hook
Updated(j, ok, probe) == [op |-> "update", job |-> j, ok |-> ok, probe |-> probe]

\* the route: the UPDATE with the evaluation hook, then 404 when no row matched
update_training_job_route(j, data, probe) ==
    /\ Len(evaluations) < MaxEvaluations
    /\ update_training_job(j, data, probe)
    /\ ret' = Updated(j, db[j] # NoJob, probe)
    /\ UNCHANGED <<running_jobs, runners, now, nstarts, world, arg, res>>

Put == \E j \in JobIdRange, data \in ClientUpdates, probe \in Probes :
          update_training_job_route(j, data, probe)

EvalNext ==
    \/ StartRouteOnce
    \/ Dispatch
    \/ StageOk
    \/ StageFail
    \/ Post
    \/ Complete
    \/ Put

EvalSpec == Init /\ [][EvalNext]_vars

\* the step is one of the PUT route on job j
PutStep(j) ==
    /\ runners' = runners
    /\ nstarts' = nstarts
    /\ ret'.op = "update"
    /\ ret'.job = j

\* C31: the evaluation the hook creates names the job's resolved artifact
\* name when the job has one and the backend lists it; when the job has
\* none it names the target name with its version replaced by `latest`,
\* and a name other than the resolved one is used in no other case than
\* these two (no resolved name, or one the backend does not list).
C31_EvaluationNamesResolvedArtifact ==
    [][\A j \in JobIdRange :
          (PutStep(j) /\ db'[j] # NoJob)
             => \A e \in NewEvaluations :
                   LET resolved == db'[j].actual_model_name
                       fallback == <<db'[j].model_name[1], "latest">>
                   IN  /\ (resolved # <<>> /\ ret'.probe.ollama = "listed")
                             => e.model_name = resolved
                       /\ resolved = <<>> => e.model_name = fallback
                       /\ e.model_name # resolved
                             => /\ e.model_name = fallback
                                /\ resolved = <<>> \/ ret'.probe.ollama = "unlisted"]_vars

\* C31: an evaluation was created under a resolved name that differs from
\* the fallback name
C31_Witness ==
    /\ ret.op = "update"
    /\ ret.probe.ollama = "listed"
    /\ db[1] # NoJob
    /\ db[1].actual_model_name = <<"my-model", "latest">>
    /\ evaluations # <<>>
    /\ evaluations[Len(evaluations)].job = 1
    /\ evaluations[Len(evaluations)].model_name = <<"my-model", "latest">>

\* C32: the completion of a job whose configuration references no dataset
\* inserts no Evaluation, leaves the job COMPLETED and writes no error
\* message.
C32_NoDatasetNoEvaluation ==
    [][\A j \in JobIdRange :
          (CompletionOf(j) /\ db[j] # NoJob /\ db[j].selectedDatasets = <<>>)
             => /\ evaluations' = evaluations
                /\ db'[j].status = "COMPLETED"
                /\ db'[j].error_message = db[j].error_message]_vars

\* C32: a job that references no dataset is COMPLETED, no Evaluation exists
C32_Witness ==
    /\ db[1] # NoJob
    /\ db[1].selectedDatasets = <<>>
    /\ db[1].status = "COMPLETED"
    /\ db[1].error_message = <<>>
    /\ evaluations = <<>>
    /\ runners = EmptyBag

\* C33: data preparation fails with the 'no training samples' error exactly
\* when the job's dataset holds no valid record: a dataset with at least
\* one valid record does not fail with it.
C33_NoSamplesErrorOnlyWithoutValidRecords ==
    res.op = "prepare" => (res.raised <=> ValidRecords(arg) = 0)

\* C34: in every reachable state, a job whose persisted status is
\* COMPLETED, FAILED or STOPPED has its completed timestamp set.
C34_TerminalJobHasCompletedAt ==
    \A j \in JobIdRange :
       (db[j] # NoJob /\ db[j].status \in Terminal) => db[j].completed_at # <<>>

\* C35: every step that inserts an Evaluation is the RUNNING -> COMPLETED
\* transition of the job the Evaluation belongs to: none is inserted for a
\* job that Stop or the sweep made terminal, nor for one already COMPLETED.
C35_EvaluationOnlyOnCompletion ==
    [][\A e \in NewEvaluations :
          /\ db[e.job].status = "RUNNING"
          /\ db'[e.job].status = "COMPLETED"]_vars

\* the number of live executions of job j in a bag of runners
ExecutionsIn(bag, j) ==
    BagCardinality([r \in {x \in BagToSet(bag) : x.job = j} |-> CopiesIn(r, bag)])

\* the step is a Start of job j
StartOf(j) == nstarts' # nstarts /\ ret'.op = "start" /\ ret'.job = j

\* C36: at most one execution exists per job id, and a Start of a job that
\* has a live execution creates no second one and leaves the job's
\* persisted progress as it is.
C36_SingleExecutionPerJob ==
    [][\A j \in JobIdRange :
          /\ ExecutionsIn(runners', j) <= 1
          /\ (StartOf(j) /\ ExecutionsIn(runners, j) > 0)
                => /\ runners' = runners
                   /\ db'[j].progress = db[j].progress]_vars

\* C37: a job that a Start made RUNNING and that has not reached a terminal
\* state has a handle in the registry that Stop and Status consult, so that
\* Stop would answer true and Status reports running.
C37_StartedJobIsTracked ==
    \A j \in JobIdRange :
       (db[j] # NoJob /\ db[j].status = "RUNNING")
          => /\ j \in DOMAIN running_jobs
             /\ StatusView(j).running

\* Delete of job j has succeeded
DeleteSucceeded(j) ==
    /\ ret.op = "delete"
    /\ ret.job = j
    /\ ret.ok
    /\ db[j] = NoJob

\* C38: after Delete of a job has succeeded the registry holds no handle
\* for it, and no step of an execution of that job creates an artifact, a
\* collection, a directory or an Evaluation.
C38_NothingRemainsAfterDelete ==
    [][\A j \in JobIdRange :
          DeleteSucceeded(j)
             => /\ j \notin DOMAIN running_jobs
                /\ (runners' # runners /\ RunnersOf(j) # {})
                      => /\ world' \subseteq world
                         /\ evaluations' = evaluations]_vars

(***************************************************************************)
(* Two jobs side by side                                                   *)
(***************************************************************************)
PairProfiles ==
    { [training_type |-> "lora", selectedDatasets |-> <<2, 1>>],
      [training_type |-> "rag",  selectedDatasets |-> <<2, 1>>] }

\* every id of the range holds a submitted job
PairInit ==
    /\ \E p, q \in PairProfiles :
          db = [j \in JobIdRange |-> IF j = 1 THEN NewJobRow(p) ELSE NewJobRow(q)]
    /\ running_jobs = <<>>
    /\ runners = EmptyBag
    /\ evaluations = <<>>
    /\ now = 0
    /\ nstarts = 0
    /\ ret = Returned("none", 0, FALSE)
    /\ world = {}
    /\ arg = <<>>
    /\ res = <<>>

\* training_executor.start_training on either job
StartEither ==
    \E j \in JobIdRange, spawned \in BOOLEAN : start_training(j, MainModule, spawned)

PairNext ==
    \/ StartEither
    \/ Stop
    \/ Dispatch
    \/ StageOk
    \/ StageFail
    \/ Complete

PairSpec == PairInit /\ [][PairNext]_vars

\* the handle of job j in a registry, as a sequence of at most one handle
HandleIn(reg, j) == IF j \in DOMAIN reg THEN <<reg[j]>> ELSE <<>>

\* the step changes what is persisted of job j or its handle
Touched(j) ==
    \/ db'[j].status # db[j].status
    \/ db'[j].progress # db[j].progress
    \/ db'[j].error_message # db[j].error_message
    \/ HandleIn(running_jobs', j) # HandleIn(running_jobs, j)

\* the jobs the step operates on: the job of the Start or Stop call, or the
\* job of the execution that took the step
OperatedJobs ==
    IF nstarts' # nstarts \/ ret' # ret
       THEN {ret'.job}
       ELSE {r.job : r \in {x \in BagToSet(runners) :
                               CopiesIn(x, runners') < CopiesIn(x, runners)}}

\* C39: a Start, a Stop, a stage update, a failure or the completion of one
\* job leaves every other job's persisted status, progress, error message
\* and registry handle unchanged, in every interleaving of two running jobs.
C39_OtherJobsUntouched ==
    [][\A b \in JobIdRange : Touched(b) => b \in OperatedJobs]_vars

\* C39: job 1 has failed in a stage while job 2, started beside it, is
\* RUNNING past its first stage with its handle and no error message
C39_Witness ==
    /\ db[1].status = "FAILED"
    /\ StageFailureText(db[1].error_message)
    /\ db[2].status = "RUNNING"
    /\ db[2].progress > 10
    /\ db[2].error_message = <<>>
    /\ RunnersOf(2) # {}
    /\ 2 \in DOMAIN running_jobs

====
